---- MODULE Spec2Model ----
(***************************************************************************)
(* countrygen: a Discord interactions webhook (src/src/main.rs).           *)
(*                                                                         *)
(* Strings, header values and bodies are sequences of bytes (0..255).      *)
(* A Rust Option / Result is a record: None, or Some(v) with field val.    *)
(***************************************************************************)
EXTENDS Integers, Sequences, FiniteSets, TLC

VARIABLES
  hexN, hexS, hexRes, hexPc,  \* one call parse_hex::<hexN>(hexS) and its result
  mainPc,         \* the statement main is at; "serving" inside axum::serve
  alive,          \* the process runs
  app,            \* the Application get_application returned (its verify_key)
  verifying_key,  \* Some(key) once main has built the VerifyingKey
  taskPc,         \* the task spawned for set_interaction_endpoints_url
  reqs,           \* per slot: the request and how far handle has come with it
  served,         \* requests received so far
  log             \* history: the verification outcome of each request

hexVars == <<hexN, hexS, hexRes, hexPc>>
mainVars == <<mainPc, alive, app, verifying_key, taskPc>>
reqVars == <<reqs, served, log>>
vars == <<hexN, hexS, hexRes, hexPc, mainPc, alive, app, verifying_key, taskPc,
          reqs, served, log>>

None == [some |-> FALSE]
Some(v) == [some |-> TRUE, val |-> v]

(***************************************************************************)
(* Text as bytes.                                                          *)
(***************************************************************************)
Ascii ==
  [c \in {"0","1","2","3","4","5","6","7","8","9"} |->
     CASE c = "0" -> 48 [] c = "1" -> 49 [] c = "2" -> 50 [] c = "3" -> 51
       [] c = "4" -> 52 [] c = "5" -> 53 [] c = "6" -> 54 [] c = "7" -> 55
       [] c = "8" -> 56 [] c = "9" -> 57] @@
  [c \in {"a","b","c","d","e","f","g"} |->
     CASE c = "a" -> 97 [] c = "b" -> 98 [] c = "c" -> 99 [] c = "d" -> 100
       [] c = "e" -> 101 [] c = "f" -> 102 [] c = "g" -> 103] @@
  [c \in {"A","B","C","D","E","F"} |->
     CASE c = "A" -> 65 [] c = "B" -> 66 [] c = "C" -> 67 [] c = "D" -> 68
       [] c = "E" -> 69 [] c = "F" -> 70] @@
  [c \in {"i","m","n","o","p","s","t","u","x","y"} |->
     CASE c = "i" -> 105 [] c = "m" -> 109 [] c = "n" -> 110 [] c = "o" -> 111
       [] c = "p" -> 112 [] c = "s" -> 115 [] c = "t" -> 116 [] c = "u" -> 117
       [] c = "x" -> 120 [] c = "y" -> 121] @@
  [c \in {" ","\"","+",",","-",".",":","[","]","{","}"} |->
     CASE c = " " -> 32 [] c = "\"" -> 34 [] c = "+" -> 43 [] c = "," -> 44
       [] c = "-" -> 45 [] c = "." -> 46 [] c = ":" -> 58 [] c = "[" -> 91
       [] c = "]" -> 93 [] c = "{" -> 123 [] c = "}" -> 125]

\* The bytes of a text given as a sequence of one-character strings.
Bytes(cs) == [i \in 1..Len(cs) |-> Ascii[cs[i]]]

RECURSIVE Concat(_)
Concat(ss) == IF ss = <<>> THEN <<>> ELSE Head(ss) \o Concat(Tail(ss))

(***************************************************************************)
(* parse_hex and the standard-library calls it makes.                      *)
(***************************************************************************)
\* char::to_digit(16) on one byte.
HexDigit(b) ==
  IF b >= 48 /\ b <= 57 THEN Some(b - 48)
  ELSE IF b >= 97 /\ b <= 102 THEN Some(b - 87)
  ELSE IF b >= 65 /\ b <= 70 THEN Some(b - 55)
  ELSE None

\* str::is_char_boundary: index 0, the length, or a byte that is no UTF-8
\* continuation byte (10xxxxxx). idx counts from 0 as in the source.
IsCharBoundary(s, idx) ==
  \/ idx = 0
  \/ idx = Len(s)
  \/ idx < Len(s) /\ (s[idx + 1] < 128 \/ s[idx + 1] >= 192)

\* s.get(from..to): the bytes from..to-1 (0-based), None off a char boundary.
StrGet(s, from, to) ==
  IF from <= to /\ to <= Len(s) /\ IsCharBoundary(s, from) /\ IsCharBoundary(s, to)
  THEN Some(SubSeq(s, from + 1, to))
  ELSE None

RECURSIVE RadixDigits(_, _)
\* The digit loop of from_str_radix: the accumulated value, None at the first
\* byte that is no hexadecimal digit.
RadixDigits(digits, acc) ==
  IF digits = <<>> THEN Some(acc)
  ELSE LET d == HexDigit(Head(digits))
       IN  IF ~d.some THEN None
           ELSE RadixDigits(Tail(digits), acc * 16 + d.val)

\* u8::from_str_radix(src, 16).ok(): an empty string and a lone sign are
\* errors, one leading '+' is skipped ('-' is no sign of an unsigned type), a
\* value above 255 overflows.
U8FromStrRadix16(src) ==
  IF src = <<>> THEN None
  ELSE IF Len(src) = 1 /\ Head(src) \in {43, 45} THEN None
  ELSE LET digits == IF Head(src) = 43 THEN Tail(src) ELSE src
           r == RadixDigits(digits, 0)
       IN  IF r.some /\ r.val <= 255 THEN r ELSE None

\* One turn of the for loop of parse_hex: byte i from characters 2i and 2i+1
\* (i counts from 0); None where either ? returns.
ParseHexByte(s, i) ==
  LET pair == StrGet(s, 2 * i, 2 * (i + 1))
  IN  IF pair.some THEN U8FromStrRadix16(pair.val) ELSE None

\* The loop returns None at the first turn that fails, and otherwise fills
\* res in order.
parse_hex(N, s) ==
  IF Len(s) # N * 2 THEN None
  ELSE IF \E i \in 0..(N - 1) : ~ParseHexByte(s, i).some THEN None
  ELSE Some([i \in 1..N |-> ParseHexByte(s, i - 1).val])

(***************************************************************************)
(* serde_json::from_slice into serde's buffered Content, as the untagged   *)
(* enum Interaction asks for it. The grammar is JSON without string        *)
(* escapes, exponents and the literals true, false, null; white space is   *)
(* the space character. A Content value is one of                          *)
(*   [k |-> "u64", n |-> n]   a non-negative integer                       *)
(*   [k |-> "i64", i |-> n]   a negative integer                           *)
(*   [k |-> "f64", neg, whole, frac]   a number with a fraction, or -0     *)
(*   [k |-> "str", s |-> bytes]                                            *)
(*   [k |-> "seq", items |-> <<Content, ...>>]                             *)
(*   [k |-> "map", entries |-> << <<key bytes, Content>>, ...>>]  in body  *)
(*                                          order, repeated keys kept.     *)
(***************************************************************************)
U64(n) == [k |-> "u64", n |-> n]
I64(n) == [k |-> "i64", i |-> n]
F64(neg, whole, frac) == [k |-> "f64", neg |-> neg, whole |-> whole, frac |-> frac]
Str(b) == [k |-> "str", s |-> b]
SeqC(es) == [k |-> "seq", items |-> es]
MapC(es) == [k |-> "map", entries |-> es]

Fail == [ok |-> FALSE]
Ok(v, p) == [ok |-> TRUE, val |-> v, pos |-> p]

IsDigit(b) == b >= 48 /\ b <= 57
At(s, p) == IF p >= 1 /\ p <= Len(s) THEN s[p] ELSE -1

RECURSIVE SkipWs(_, _)
SkipWs(s, p) == IF At(s, p) = 32 THEN SkipWs(s, p + 1) ELSE p

RECURSIVE DigitsEnd(_, _)
\* The position after the run of digits that starts at p.
DigitsEnd(s, p) == IF IsDigit(At(s, p)) THEN DigitsEnd(s, p + 1) ELSE p

RECURSIVE DecimalValue(_, _)
DecimalValue(digits, acc) ==
  IF digits = <<>> THEN acc
  ELSE DecimalValue(Tail(digits), acc * 10 + (Head(digits) - 48))

\* A number: [-] (0 | digit+) [. digit+]. A leading 0 followed by a digit is
\* an error; an integer is u64 or, when negative, i64; -0 is a float.
ParseNumber(s, p) ==
  LET neg == At(s, p) = 45
      p1 == IF neg THEN p + 1 ELSE p
      p2 == DigitsEnd(s, p1)
      whole == DecimalValue(SubSeq(s, p1, p2 - 1), 0)
      p3 == DigitsEnd(s, p2 + 1)
  IN  IF p2 = p1 THEN Fail
      ELSE IF At(s, p1) = 48 /\ p2 > p1 + 1 THEN Fail
      ELSE IF At(s, p2) = 46
        THEN IF p3 = p2 + 1 THEN Fail
             ELSE Ok(F64(neg, whole, SubSeq(s, p2 + 1, p3 - 1)), p3)
      ELSE IF ~neg THEN Ok(U64(whole), p2)
      ELSE IF whole = 0 THEN Ok(F64(TRUE, 0, <<>>), p2)
      ELSE Ok(I64(0 - whole), p2)

RECURSIVE StringEnd(_, _)
\* The position of the quote that closes a string whose text starts at p; 0
\* when the text runs into the end of input or holds a control character.
StringEnd(s, p) ==
  IF p > Len(s) \/ s[p] < 32 THEN 0
  ELSE IF s[p] = 34 THEN p
  ELSE StringEnd(s, p + 1)

ParseString(s, p) ==
  LET q == StringEnd(s, p + 1)
  IN  IF At(s, p) # 34 \/ q = 0 THEN Fail
      ELSE Ok(SubSeq(s, p + 1, q - 1), q + 1)

RECURSIVE ParseValue(_, _)
RECURSIVE ParseElements(_, _, _)
RECURSIVE ParseMembers(_, _, _)

\* After an element of an array: , and the next element, or ].
ParseElements(s, p, acc) ==
  LET e == ParseValue(s, p)
      q == IF e.ok THEN SkipWs(s, e.pos) ELSE 0
  IN  IF ~e.ok THEN Fail
      ELSE IF At(s, q) = 44 THEN ParseElements(s, q + 1, Append(acc, e.val))
      ELSE IF At(s, q) = 93 THEN Ok(SeqC(Append(acc, e.val)), q + 1)
      ELSE Fail

\* A member "key" : value of an object, then , and the next member, or }.
ParseMembers(s, p, acc) ==
  LET kp == SkipWs(s, p)
      key == ParseString(s, kp)
      cp == IF key.ok THEN SkipWs(s, key.pos) ELSE 0
      e == IF key.ok /\ At(s, cp) = 58 THEN ParseValue(s, cp + 1) ELSE Fail
      q == IF e.ok THEN SkipWs(s, e.pos) ELSE 0
  IN  IF ~e.ok THEN Fail
      ELSE IF At(s, q) = 44
        THEN ParseMembers(s, q + 1, Append(acc, <<key.val, e.val>>))
      ELSE IF At(s, q) = 125
        THEN Ok(MapC(Append(acc, <<key.val, e.val>>)), q + 1)
      ELSE Fail

ParseValue(s, p0) ==
  LET p == SkipWs(s, p0)
      b == At(s, p)
      str == ParseString(s, p)
  IN  IF b = 123
        THEN IF At(s, SkipWs(s, p + 1)) = 125
             THEN Ok(MapC(<<>>), SkipWs(s, p + 1) + 1)
             ELSE ParseMembers(s, p + 1, <<>>)
      ELSE IF b = 91
        THEN IF At(s, SkipWs(s, p + 1)) = 93
             THEN Ok(SeqC(<<>>), SkipWs(s, p + 1) + 1)
             ELSE ParseElements(s, p + 1, <<>>)
      ELSE IF b = 34
        THEN IF str.ok THEN Ok(Str(str.val), str.pos) ELSE Fail
      ELSE IF b = 45 \/ IsDigit(b) THEN ParseNumber(s, p)
      ELSE Fail

\* One value, then only white space to the end of the input.
ParseJson(s) ==
  LET r == ParseValue(s, 1)
  IN  IF r.ok /\ SkipWs(s, r.pos) = Len(s) + 1 THEN Some(r.val) ELSE None

(***************************************************************************)
(* Rendering a Content value as compact JSON text (serde_json::to_vec).    *)
(***************************************************************************)
RECURSIVE DecimalDigits(_)
DecimalDigits(n) ==
  IF n < 10 THEN <<48 + n>> ELSE Append(DecimalDigits(n \div 10), 48 + (n % 10))

RECURSIVE Render(_)
RECURSIVE RenderElements(_)
RECURSIVE RenderMembers(_)

RenderElements(es) ==
  IF es = <<>> THEN <<>>
  ELSE Render(Head(es))
       \o (IF Len(es) > 1 THEN <<44>> ELSE <<>>) \o RenderElements(Tail(es))

RenderMembers(es) ==
  IF es = <<>> THEN <<>>
  ELSE <<34>> \o Head(es)[1] \o <<34, 58>> \o Render(Head(es)[2])
       \o (IF Len(es) > 1 THEN <<44>> ELSE <<>>) \o RenderMembers(Tail(es))

Render(c) ==
  CASE c.k = "u64" -> DecimalDigits(c.n)
    [] c.k = "i64" -> <<45>> \o DecimalDigits(0 - c.i)
    [] c.k = "f64" -> (IF c.neg THEN <<45>> ELSE <<>>) \o DecimalDigits(c.whole)
                       \o (IF c.frac = <<>> THEN <<>> ELSE <<46>> \o c.frac)
    [] c.k = "str" -> <<34>> \o c.s \o <<34>>
    [] c.k = "seq" -> <<91>> \o RenderElements(c.items) \o <<93>>
    [] c.k = "map" -> <<123>> \o RenderMembers(c.entries) \o <<125>>

(***************************************************************************)
(* The inbound envelope: #[serde(untagged)] enum Interaction.              *)
(***************************************************************************)
TypeKey == Bytes(<<"t","y","p","e">>)
DataKey == Bytes(<<"d","a","t","a">>)
NameKey == Bytes(<<"n","a","m","e">>)
ContentKey == Bytes(<<"c","o","n","t","e","n","t">>)
CityName == Bytes(<<"c","i","t","y">>)
UsaCityName == Bytes(<<"u","s","a","c","i","t","y">>)
StateName == Bytes(<<"s","t","a","t","e">>)

\* u8::deserialize from buffered content: an integer that fits 8 bits.
U8Deserialize(c) ==
  IF c.k = "u64" /\ c.n <= 255 THEN Some(c.n) ELSE None

\* InteractionType::<T>::deserialize. The type is a unit struct; `value` keeps
\* the number it was built from, for the claims about it.
InteractionTypeDeserialize(T, c) ==
  LET value == U8Deserialize(c)
  IN  IF ~value.some THEN None
      ELSE IF value.val = T THEN Some([T |-> T, value |-> value.val])
      ELSE None

\* String::deserialize from buffered content.
StringDeserialize(c) == IF c.k = "str" THEN Some(c.s) ELSE None

RECURSIVE DataVisitMap(_, _)
\* The derived visit_map of ApplicationCommandData: a repeated name is an
\* error, other keys are skipped, a missing name is an error.
DataVisitMap(entries, name) ==
  IF entries = <<>>
    THEN IF name.some THEN Some([name |-> name.val]) ELSE None
  ELSE IF Head(entries)[1] = NameKey
    THEN LET v == StringDeserialize(Head(entries)[2])
         IN  IF name.some \/ ~v.some THEN None
             ELSE DataVisitMap(Tail(entries), v)
  ELSE DataVisitMap(Tail(entries), name)

\* The derived visit_seq of ApplicationCommandData, and the check that the
\* sequence holds nothing more.
DataVisitSeq(elems) ==
  IF Len(elems) # 1 THEN None
  ELSE LET v == StringDeserialize(elems[1])
       IN  IF v.some THEN Some([name |-> v.val]) ELSE None

\* ApplicationCommandData::deserialize: a struct, from a map or a sequence.
ApplicationCommandDataDeserialize(c) ==
  CASE c.k = "map" -> DataVisitMap(c.entries, None)
    [] c.k = "seq" -> DataVisitSeq(c.items)
    [] OTHER -> None

RECURSIVE PingVisitMap(_, _)
\* Variant Ping { _type: InteractionType<1> }.
PingVisitMap(entries, type) ==
  IF entries = <<>>
    THEN IF type.some THEN Some([variant |-> "Ping", _type |-> type.val])
         ELSE None
  ELSE IF Head(entries)[1] = TypeKey
    THEN LET v == InteractionTypeDeserialize(1, Head(entries)[2])
         IN  IF type.some \/ ~v.some THEN None
             ELSE PingVisitMap(Tail(entries), v)
  ELSE PingVisitMap(Tail(entries), type)

RECURSIVE ApplicationCommandVisitMap(_, _, _)
\* Variant ApplicationCommand { _type: InteractionType<2>, data }.
ApplicationCommandVisitMap(entries, type, data) ==
  IF entries = <<>>
    THEN IF type.some /\ data.some
         THEN Some([variant |-> "ApplicationCommand", _type |-> type.val,
                    data |-> data.val])
         ELSE None
  ELSE IF Head(entries)[1] = TypeKey
    THEN LET v == InteractionTypeDeserialize(2, Head(entries)[2])
         IN  IF type.some \/ ~v.some THEN None
             ELSE ApplicationCommandVisitMap(Tail(entries), v, data)
  ELSE IF Head(entries)[1] = DataKey
    THEN LET v == ApplicationCommandDataDeserialize(Head(entries)[2])
         IN  IF data.some \/ ~v.some THEN None
             ELSE ApplicationCommandVisitMap(Tail(entries), type, v)
  ELSE ApplicationCommandVisitMap(Tail(entries), type, data)

\* Interaction::deserialize: the variants in order, each from a map only (an
\* untagged struct variant has no sequence form); the first that fits.
InteractionDeserialize(c) ==
  LET ping == IF c.k = "map" THEN PingVisitMap(c.entries, None) ELSE None
      command == IF c.k = "map"
                 THEN ApplicationCommandVisitMap(c.entries, None, None) ELSE None
  IN  IF ping.some THEN ping ELSE command

\* serde_json::from_slice::<Interaction>(&body).
FromSlice(body) ==
  LET c == ParseJson(body)
  IN  IF c.some THEN InteractionDeserialize(c.val) ELSE None

(***************************************************************************)
(* The outbound envelope: #[serde(untagged)] enum InteractionResponse.     *)
(***************************************************************************)
\* A serializer that writes the tag of a message whatever T is.
SerializeMessageTag(T) == U64(4)

\* InteractionCallbackType::<T>::serialize: serialize_u8(T).
InteractionCallbackTypeSerialize(T) == U64(T)

Pong == [variant |-> "Pong"]
ChannelMessageWithSource(content) ==
  [variant |-> "ChannelMessageWithSource", data |-> [content |-> content]]

\* The derived Serialize of InteractionResponse and Message.
InteractionResponseSerialize(r) ==
  IF r.variant = "Pong"
  THEN MapC(<< <<TypeKey, InteractionCallbackTypeSerialize(1)>> >>)
  ELSE MapC(<< <<TypeKey, InteractionCallbackTypeSerialize(4)>>,
               <<DataKey, MapC(<< <<ContentKey, Str(r.data.content)>> >>)>> >>)

\* Json(response) as the response body.
JsonBody(r) == Render(InteractionResponseSerialize(r))

(***************************************************************************)
(* Ed25519, as an ideal signature scheme: a key pair's signature of a      *)
(* message is one 64-byte string, and the signatures of distinct (key      *)
(* pair, message) are distinct. The signature of a message of at most 62   *)
(* bytes spells out the key pair, the length and the message.              *)
(***************************************************************************)
SIGNATURE_LENGTH == 64
PUBLIC_KEY_LENGTH == 32

KeyPairs == {1, 2}

Zeros(n) == [i \in 1..n |-> 0]

PublicKey(kp) == <<kp>> \o Zeros(PUBLIC_KEY_LENGTH - 1)

\* What the holder of key pair kp's private key issues for msg.
Sign(kp, msg) ==
  <<kp, Len(msg)>> \o msg \o Zeros(SIGNATURE_LENGTH - 2 - Len(msg))

\* public_key.verify(&msg, &signature).
Ed25519Verify(public_key, msg, signature) ==
  \E kp \in KeyPairs :
    /\ public_key = PublicKey(kp)
    /\ Len(msg) <= SIGNATURE_LENGTH - 2
    /\ signature = Sign(kp, msg)

\* VerifyingKey::from_bytes: the bytes must be a point of the curve.
VerifyingKeyFromBytes(bytes) ==
  IF \E kp \in KeyPairs : bytes = PublicKey(kp) THEN Some(bytes) ELSE None

\* A verifier that accepts a signature once.
verify_once(public_key, signature, timestamp, body) ==
  LET signature_bytes == parse_hex(SIGNATURE_LENGTH, signature)
      msg == timestamp \o body
  IN  /\ signature_bytes.some
      /\ Ed25519Verify(public_key, msg, signature_bytes.val)
      /\ ~\E e \in log : e.pass /\ e.signature = signature

\* A verifier that checks the signature against the body alone.
verify_body_only(public_key, signature, timestamp, body) ==
  LET signature_bytes == parse_hex(SIGNATURE_LENGTH, signature)
  IN  /\ signature_bytes.some
      /\ Ed25519Verify(public_key, body, signature_bytes.val)

\* Ok(()) is TRUE, Err is FALSE.
verify_discord_message(public_key, signature, timestamp, body) ==
  LET signature_bytes == parse_hex(SIGNATURE_LENGTH, signature)
      msg == timestamp \o body
  IN  /\ signature_bytes.some
      /\ Ed25519Verify(public_key, msg, signature_bytes.val)

(***************************************************************************)
(* handle: one action per statement that can return.                       *)
(***************************************************************************)
\* The requests the model sends; each has a slot, and all may be in flight
\* at once.
MaxRequests == 2

Slots == 1..MaxRequests

NoOrigin == [signer |-> 0, signed |-> <<>>, tamper |-> "none", json |-> None]

\* The slot of a request that has not arrived.
NoReq ==
  [pc |-> "idle", headers |-> [sig |-> None, ts |-> None], body |-> <<>>,
   origin |-> NoOrigin, key |-> <<>>, signature |-> <<>>, timestamp |-> <<>>,
   interaction |-> None, status |-> 0, message |-> "", reply |-> <<>>,
   file |-> "",
   \* history: the task's state when the request arrived, or that the task
   \* panicked while the request was in flight; whether the same request had
   \* been accepted before; and which statements of handle have run for it
   task |-> "none", replay |-> FALSE,
   checked |-> FALSE, verified |-> FALSE, decoded |-> FALSE]

\* HeaderValue::to_str: every byte is a tab or visible ASCII.
ToStr(v) ==
  IF \A j \in 1..Len(v) : v[j] = 9 \/ (v[j] >= 32 /\ v[j] <= 126)
  THEN Some(v) ELSE None

\* return Err((status, message)).
Reject(i, status, message) ==
  reqs' = [reqs EXCEPT ![i] = [@ EXCEPT !.pc = "done", !.status = status,
                                         !.message = message]]

\* A handler that drops the ? and goes on whatever the verifier returned.
VerifyUngated(i, ok) ==
  reqs' = [reqs EXCEPT ![i] = [@ EXCEPT !.pc = "decode", !.checked = TRUE,
                                         !.verified = ok]]

\* The ? after verify_discord_message(..).map_err(..): go on when Ok, return
\* 401 when Err.
VerifyGate(i, ok) ==
  IF ok
  THEN reqs' = [reqs EXCEPT ![i] = [@ EXCEPT !.pc = "decode", !.checked = TRUE,
                                              !.verified = TRUE]]
  ELSE reqs' = [reqs EXCEPT ![i] = [@ EXCEPT !.pc = "done", !.checked = TRUE,
                                              !.status = 401,
                                              !.message = "invalid!!!"]]

\* A request with these headers and this body has passed verification.
Accepted(r) ==
  \E e \in log : /\ e.pass
                 /\ r.headers.sig = Some(e.signature)
                 /\ r.headers.ts = Some(e.timestamp)
                 /\ r.body = e.body

\* axum calls handle with the router's state, the headers and the body.
\* Requests are numbered in the order they arrive.
Receive(i, r) ==
  /\ alive
  /\ mainPc = "serving"
  /\ i = served + 1
  /\ reqs[i].pc = "idle"
  /\ reqs' = [reqs EXCEPT ![i] =
                [NoReq EXCEPT !.pc = "sig_header", !.headers = r.headers,
                              !.body = r.body, !.origin = r.origin,
                              !.key = verifying_key.val,
                              !.task = taskPc,
                              !.replay = Accepted(r)]]
  /\ served' = served + 1
  /\ UNCHANGED <<log, mainVars, hexVars>>

HandleSignatureHeader(i) ==
  /\ alive
  /\ reqs[i].pc = "sig_header"
  /\ LET h == reqs[i].headers.sig
     IN  IF ~h.some THEN Reject(i, 400, "expected signature key")
         ELSE IF ~ToStr(h.val).some
           THEN Reject(i, 400, "expected signature key to be valid string")
         ELSE reqs' = [reqs EXCEPT ![i] =
                         [@ EXCEPT !.pc = "ts_header", !.signature = h.val]]
  /\ UNCHANGED <<served, log, mainVars, hexVars>>

HandleTimestampHeader(i) ==
  /\ alive
  /\ reqs[i].pc = "ts_header"
  /\ LET h == reqs[i].headers.ts
     IN  IF ~h.some THEN Reject(i, 400, "expected signature timestamp")
         ELSE IF ~ToStr(h.val).some
           THEN Reject(i, 400, "expected signature timestamp to be valid string")
         ELSE reqs' = [reqs EXCEPT ![i] =
                         [@ EXCEPT !.pc = "verify", !.timestamp = h.val]]
  /\ UNCHANGED <<served, log, mainVars, hexVars>>

HandleVerify(i) ==
  /\ alive
  /\ reqs[i].pc = "verify"
  /\ LET r == reqs[i]
         ok == verify_discord_message(r.key, r.signature, r.timestamp, r.body)
     IN  /\ VerifyGate(i, ok)
         /\ log' = log \cup {[signature |-> r.signature, timestamp |-> r.timestamp,
                              body |-> r.body, key |-> r.key, pass |-> ok]}
  /\ UNCHANGED <<served, mainVars, hexVars>>

HandleDecode(i) ==
  /\ alive
  /\ reqs[i].pc = "decode"
  /\ LET interaction == FromSlice(reqs[i].body)
     IN  IF interaction.some
         THEN reqs' = [reqs EXCEPT ![i] =
                         [@ EXCEPT !.pc = "dispatch", !.decoded = TRUE,
                                   !.interaction = interaction]]
         ELSE reqs' = [reqs EXCEPT ![i] =
                         [@ EXCEPT !.pc = "done", !.decoded = TRUE, !.status = 400,
                                   !.message = "failed to parse interaction"]]
  /\ UNCHANGED <<served, log, mainVars, hexVars>>

\* A match whose "usacity" arm was copied from "city" with its file.
MatchCommandCopied(name) ==
  CASE name = CityName -> Some("city.txt")
    [] name = UsaCityName -> Some("city.txt")
    [] name = StateName -> Some("state.txt")
    [] OTHER -> None

\* The arms of match data.name.as_str(): the file whose lines the arm draws
\* from, None for the arm _.
MatchCommand(name) ==
  CASE name = CityName -> Some("city.txt")
    [] name = UsaCityName -> Some("usacity.txt")
    [] name = StateName -> Some("state.txt")
    [] OTHER -> None

\* include_str!(file).lines().collect(): the lines of a word list. city.txt
\* and usacity.txt share an entry.
IncludeStrLines(file) ==
  CASE file = "city.txt" -> {Bytes(<<"c","1">>), Bytes(<<"u","1">>)}
    [] file = "usacity.txt" -> {Bytes(<<"u","1">>), Bytes(<<"u","2">>)}
    [] file = "state.txt" -> {Bytes(<<"s","1">>), Bytes(<<"s","2">>)}

\* Ok(Json(response)).
Respond(i, response, file) ==
  reqs' = [reqs EXCEPT ![i] = [@ EXCEPT !.pc = "done", !.status = 200,
                                         !.reply = JsonBody(response),
                                         !.file = file]]

HandleDispatch(i) ==
  /\ alive
  /\ reqs[i].pc = "dispatch"
  /\ LET interaction == reqs[i].interaction.val
         arm == MatchCommand(interaction.data.name)
     IN  IF interaction.variant = "Ping" THEN Respond(i, Pong, "")
         ELSE IF arm.some
           THEN \E word \in IncludeStrLines(arm.val) :
                  Respond(i, ChannelMessageWithSource(word), arm.val)
         ELSE Reject(i, 400, "unknown command")
  /\ UNCHANGED <<served, log, mainVars, hexVars>>

(***************************************************************************)
(* main, and the task it spawns.                                           *)
(***************************************************************************)
\* main returns Err: the process ends, and the runtime drops the task.
MainExit ==
  /\ mainPc' = "exited"
  /\ alive' = FALSE
  /\ taskPc' = IF taskPc = "running" THEN "cancelled" ELSE taskPc

MainBotKey ==
  /\ alive /\ mainPc = "bot_key"
  /\ \/ mainPc' = "endpoint_url" /\ UNCHANGED <<alive, taskPc>>
     \/ MainExit
  /\ UNCHANGED <<app, verifying_key, reqVars, hexVars>>

MainEndpointUrl ==
  /\ alive /\ mainPc = "endpoint_url"
  /\ \/ mainPc' = "client_new" /\ UNCHANGED <<alive, taskPc>>
     \/ MainExit
  /\ UNCHANGED <<app, verifying_key, reqVars, hexVars>>

MainClientNew ==
  /\ alive /\ mainPc = "client_new"
  /\ \/ mainPc' = "get_application" /\ UNCHANGED <<alive, taskPc>>
     \/ MainExit
  /\ UNCHANGED <<app, verifying_key, reqVars, hexVars>>

\* What the remote platform may answer as the application's verify_key.
HexChar(n) == IF n < 10 THEN 48 + n ELSE 87 + n

\* Lower-case hexadecimal text of a byte string.
HexEncode(bytes) ==
  [j \in 1..(2 * Len(bytes)) |->
     IF j % 2 = 1 THEN HexChar(bytes[(j + 1) \div 2] \div 16)
     ELSE HexChar(bytes[j \div 2] % 16)]

VerifyKeyTexts ==
  { HexEncode(PublicKey(1)),
    HexEncode([i \in 1..PUBLIC_KEY_LENGTH |-> 255]),
    HexEncode(Zeros(PUBLIC_KEY_LENGTH - 1)),
    [HexEncode(PublicKey(1)) EXCEPT ![1] = 103] }

MainGetApplication ==
  /\ alive /\ mainPc = "get_application"
  /\ \/ /\ \E text \in VerifyKeyTexts : app' = Some([verify_key |-> text])
        /\ mainPc' = "set_commands"
        /\ UNCHANGED <<alive, taskPc>>
     \/ MainExit /\ UNCHANGED app
  /\ UNCHANGED <<verifying_key, reqVars, hexVars>>

MainSetCommands ==
  /\ alive /\ mainPc = "set_commands"
  /\ \/ mainPc' = "spawn" /\ UNCHANGED <<alive, taskPc>>
     \/ MainExit
  /\ UNCHANGED <<app, verifying_key, reqVars, hexVars>>

\* tokio::spawn: the task starts, main goes on.
MainSpawn ==
  /\ alive /\ mainPc = "spawn"
  /\ taskPc' = "running"
  /\ mainPc' = "verifying_key"
  /\ UNCHANGED <<alive, app, verifying_key, reqVars, hexVars>>

\* A main that serves with whatever the key text decodes to, or with zeros.
MainVerifyingKeyUnchecked ==
  /\ alive /\ mainPc = "verifying_key"
  /\ LET bytes == parse_hex(PUBLIC_KEY_LENGTH, app.val.verify_key)
     IN  verifying_key' = IF bytes.some THEN bytes ELSE Some(Zeros(PUBLIC_KEY_LENGTH))
  /\ mainPc' = "bind"
  /\ UNCHANGED <<alive, taskPc, app, reqVars, hexVars>>

\* let verifying_key = { parse_hex(..).ok_or(..)?; VerifyingKey::from_bytes(..)? }
MainVerifyingKey ==
  /\ alive /\ mainPc = "verifying_key"
  /\ LET bytes == parse_hex(PUBLIC_KEY_LENGTH, app.val.verify_key)
         key == IF bytes.some THEN VerifyingKeyFromBytes(bytes.val) ELSE None
     IN  IF key.some
         THEN /\ verifying_key' = key
              /\ mainPc' = "bind"
              /\ UNCHANGED <<alive, taskPc>>
         ELSE MainExit /\ UNCHANGED verifying_key
  /\ UNCHANGED <<app, reqVars, hexVars>>

\* Router::new()...with_state(verifying_key); TcpListener::bind; axum::serve.
MainBind ==
  /\ alive /\ mainPc = "bind"
  /\ \/ mainPc' = "serving" /\ UNCHANGED <<alive, taskPc>>
     \/ MainExit
  /\ UNCHANGED <<app, verifying_key, reqVars, hexVars>>

\* set_interaction_endpoints_url returns Ok: the platform has reached the
\* server, which therefore serves.
TaskSucceed ==
  /\ alive /\ taskPc = "running" /\ mainPc = "serving"
  /\ taskPc' = "finished"
  /\ UNCHANGED <<mainPc, alive, app, verifying_key, reqVars, hexVars>>

\* The panic of the task carried on to the process, as under panic = "abort".
TaskFailAborts ==
  /\ alive /\ taskPc = "running"
  /\ taskPc' = "panicked"
  /\ alive' = FALSE
  /\ UNCHANGED <<mainPc, app, verifying_key, reqVars, hexVars>>

\* set_interaction_endpoints_url returns Err and unwrap panics: the runtime
\* catches the panic of a spawned task, and only the task ends. The requests
\* in flight are marked in their history.
TaskFail ==
  /\ alive /\ taskPc = "running"
  /\ taskPc' = "panicked"
  /\ reqs' = [i \in Slots |->
                IF reqs[i].pc \in {"idle", "done"} THEN reqs[i]
                ELSE [reqs[i] EXCEPT !.task = "panicked_in_flight"]]
  /\ UNCHANGED <<mainPc, alive, app, verifying_key, served, log, hexVars>>

(***************************************************************************)
(* The requests of the bounded domain: what a client sends, with how it    *)
(* was made (origin): who signed which message, how the signature text was *)
(* altered, and the JSON value the body spells, if any.                    *)
(***************************************************************************)
Tampers == {"none", "upper", "flip", "short", "nonhex", "plus", "plus_low"}

Tamper(t, hex) ==
  CASE t = "none" -> hex
    [] t = "upper" -> [j \in 1..Len(hex) |->
                         IF hex[j] >= 97 /\ hex[j] <= 102 THEN hex[j] - 32 ELSE hex[j]]
    [] t = "flip" -> [hex EXCEPT ![Len(hex)] = IF @ = 48 THEN 49 ELSE 48]
    [] t = "short" -> SubSeq(hex, 1, Len(hex) - 2)
    [] t = "nonhex" -> [hex EXCEPT ![1] = 103]
    [] t = "plus" -> [hex EXCEPT ![1] = 43]
    [] t = "plus_low" -> [hex EXCEPT ![2] = 43]

Obj1(k1, v1) == MapC(<< <<k1, v1>> >>)
Obj2(k1, v1, k2, v2) == MapC(<< <<k1, v1>>, <<k2, v2>> >>)
Obj3(k1, v1, k2, v2, k3, v3) == MapC(<< <<k1, v1>>, <<k2, v2>>, <<k3, v3>> >>)

XKey == Bytes(<<"x">>)
CityCapital == Bytes(<<"C","i","t","y">>)

TypeValues == {U64(1), U64(2), U64(3), U64(257), I64(-1), F64(FALSE, 1, <<48>>),
               Str(<<49>>)}

DataValues ==
  { Obj1(NameKey, Str(CityName)), Obj1(NameKey, Str(UsaCityName)),
    Obj1(NameKey, Str(StateName)), Obj1(NameKey, Str(CityCapital)),
    Obj1(NameKey, Str(XKey)), Obj1(NameKey, U64(1)), MapC(<<>>),
    Obj1(XKey, Str(CityName)),
    Obj2(NameKey, Str(CityName), NameKey, Str(CityName)),
    Obj2(XKey, U64(1), NameKey, Str(StateName)),
    SeqC(<<Str(CityName)>>), SeqC(<<Str(CityName), U64(1)>>), SeqC(<<>>),
    Str(CityName) }

\* The JSON values bodies spell.
BodyValues ==
  {MapC(<<>>), SeqC(<<U64(1)>>), U64(7), Str(CityName)}
  \cup {Obj1(TypeKey, t) : t \in TypeValues}
  \cup {Obj2(TypeKey, t, DataKey, d) : t \in {U64(1), U64(2), U64(3)}, d \in DataValues}
  \cup {Obj2(DataKey, d, TypeKey, U64(2)) :
          d \in {Obj1(NameKey, Str(CityName)), Obj1(NameKey, U64(1))}}
  \cup {Obj2(TypeKey, t1, TypeKey, t2) : t1, t2 \in {U64(1), U64(2), U64(3)}}
  \cup {Obj3(TypeKey, t1, TypeKey, t2, DataKey, Obj1(NameKey, Str(CityName))) :
          t1, t2 \in {U64(1), U64(2)}}
  \cup {Obj3(TypeKey, U64(2), DataKey, d, DataKey, d) :
          d \in {Obj1(NameKey, Str(CityName))}}
  \cup {Obj2(XKey, U64(1), TypeKey, U64(1)),
        Obj3(XKey, U64(1), TypeKey, U64(2), DataKey, Obj1(NameKey, Str(UsaCityName)))}

PingBody == Render(Obj1(TypeKey, U64(1)))

\* Bodies with the value they spell: the compact text, the text in white
\* space, and texts that spell no value (cut short, or after a digit).
Bodies ==
  {[bytes |-> Render(c), json |-> Some(c)] : c \in BodyValues}
  \cup {[bytes |-> <<32>> \o Render(c) \o <<32>>, json |-> Some(c)] :
          c \in {Obj1(TypeKey, U64(1)), Obj1(TypeKey, U64(3))}}
  \cup {[bytes |-> SubSeq(Render(c), 1, Len(Render(c)) - 1), json |-> None] :
          c \in {Obj1(TypeKey, U64(1)), Obj2(TypeKey, U64(2), DataKey, Obj1(NameKey, Str(CityName)))}}
  \cup {[bytes |-> <<55>> \o PingBody, json |-> None],
        [bytes |-> <<>>, json |-> None]}

FewBodies ==
  {b \in Bodies : b.bytes \in {PingBody, <<55>> \o PingBody}}

\* Timestamp header values: 17, 1, 1a, the empty string, a byte that is no
\* text; and no header.
TimestampHeaders ==
  {None, Some(<<200>>), Some(<<49, 55>>), Some(<<49>>), Some(<<49, 97>>), Some(<<>>)}

\* The message a signature was issued for: this request's timestamp and
\* body, or the same with another body, or with another timestamp.
SignedMessages(ts, body) ==
  {ts \o body, ts \o Render(Obj1(TypeKey, U64(3))), <<49, 56>> \o body}

HeaderBytes(h) == IF h.some THEN h.val ELSE <<>>

SignedRequest(kp, msg, t, ts, b) ==
  [headers |-> [sig |-> Some(Tamper(t, HexEncode(Sign(kp, msg)))), ts |-> ts],
   body |-> b.bytes,
   origin |-> [signer |-> kp, signed |-> msg, tamper |-> t, json |-> b.json]]

UnsignedRequest(sig, ts, b) ==
  [headers |-> [sig |-> sig, ts |-> ts], body |-> b.bytes,
   origin |-> [NoOrigin EXCEPT !.json = b.json]]

Requests ==
  {SignedRequest(kp, msg, t, ts, b) :
     kp \in KeyPairs, t \in Tampers,
     <<ts, b, msg>> \in {<<ts, b, msg>> \in
        TimestampHeaders \X FewBodies \X UNION {SignedMessages(HeaderBytes(ts), b.bytes) : ts \in TimestampHeaders, b \in FewBodies} :
        msg \in SignedMessages(HeaderBytes(ts), b.bytes)}}
  \cup {SignedRequest(kp, <<49, 55>> \o b.bytes, "none", Some(<<49, 55>>), b) :
          kp \in KeyPairs, b \in Bodies}
  \cup {UnsignedRequest(sig, ts, b) :
          sig \in {None, Some(<<200>>)}, ts \in TimestampHeaders, b \in FewBodies}

\* One signature in three requests: with the timestamp and body it was
\* issued for, with the boundary between the two moved, and with the body
\* changed.
ReplayRequests ==
  LET ping == CHOOSE b \in Bodies : b.bytes = PingBody
      digit == CHOOSE b \in Bodies : b.bytes = <<55>> \o PingBody
      other == CHOOSE b \in Bodies : b.bytes = Render(Obj1(TypeKey, U64(3)))
      msg == <<49, 55>> \o PingBody
  IN  { SignedRequest(1, msg, "none", Some(<<49, 55>>), ping),
        SignedRequest(1, msg, "none", Some(<<49>>), digit),
        SignedRequest(1, msg, "none", Some(<<49, 55>>), other) }

\* The requests of the server specification: a signed Ping, and the same
\* with the body changed.
ServerRequests == {r \in ReplayRequests : r.headers.ts = Some(<<49, 55>>)}

(***************************************************************************)
(* Spec: the server as it serves, and one request from the full domain.    *)
(***************************************************************************)
InitHexIdle ==
  /\ hexN = 0 /\ hexS = <<>> /\ hexRes = None /\ hexPc = "idle"

Init ==
  /\ InitHexIdle
  /\ mainPc = "serving"
  /\ alive = TRUE
  /\ \E kp \in KeyPairs :
       /\ app = Some([verify_key |-> HexEncode(PublicKey(kp))])
       /\ verifying_key = Some(PublicKey(kp))
  /\ taskPc = "finished"
  /\ reqs = [i \in Slots |-> NoReq]
  /\ served = 0
  /\ log = {}

Arrive == \E r \in Requests : Receive(1, r)

Next ==
  \/ Arrive
  \/ HandleSignatureHeader(1)
  \/ HandleTimestampHeader(1)
  \/ HandleVerify(1)
  \/ HandleDecode(1)
  \/ HandleDispatch(1)

Spec == Init /\ [][Next]_vars

(***************************************************************************)
(* SpecServer: main from its first statement, the spawned task, and        *)
(* requests in every interleaving.                                         *)
(***************************************************************************)
InitServer ==
  /\ InitHexIdle
  /\ mainPc = "bot_key"
  /\ alive = TRUE
  /\ app = None
  /\ verifying_key = None
  /\ taskPc = "none"
  /\ reqs = [i \in Slots |-> NoReq]
  /\ served = 0
  /\ log = {}

ArriveServer(i) == \E r \in ServerRequests : Receive(i, r)

NextServer ==
  \/ MainBotKey
  \/ MainEndpointUrl
  \/ MainClientNew
  \/ MainGetApplication
  \/ MainSetCommands
  \/ MainSpawn
  \/ MainVerifyingKey
  \/ MainBind
  \/ TaskSucceed
  \/ TaskFail
  \/ \E i \in Slots :
       \/ ArriveServer(i)
       \/ HandleSignatureHeader(i)
       \/ HandleTimestampHeader(i)
       \/ HandleVerify(i)
       \/ HandleDecode(i)
       \/ HandleDispatch(i)

SpecServer == InitServer /\ [][NextServer]_vars

(***************************************************************************)
(* SpecReplay: the server as it serves, and requests that carry one         *)
(* signature, in every order and interleaving.                             *)
(***************************************************************************)
ArriveReplay(i) == \E r \in ReplayRequests : Receive(i, r)

NextReplay ==
  \E i \in Slots :
    \/ ArriveReplay(i)
    \/ HandleSignatureHeader(i)
    \/ HandleTimestampHeader(i)
    \/ HandleVerify(i)
    \/ HandleDecode(i)
    \/ HandleDispatch(i)

SpecReplay == Init /\ [][NextReplay]_vars

(***************************************************************************)
(* SpecHex: parse_hex::<N> applied to every string of the bounded domain.  *)
(***************************************************************************)
MaxN == 2

\* The characters the input strings are built from, each as its UTF-8 bytes:
\* 1 a F + - and the two-byte character U+00E9.
HexChars == {<<49>>, <<97>>, <<70>>, <<43>>, <<45>>, <<195, 169>>}

RECURSIVE CharStrings(_)
\* Every sequence of at most n characters of HexChars.
CharStrings(n) ==
  IF n = 0 THEN {<<>>}
  ELSE LET shorter == CharStrings(n - 1)
       IN  shorter \cup {<<c>> \o t : c \in HexChars, t \in {u \in shorter : Len(u) = n - 1}}

\* The strings of at most n characters.
HexInputs(n) == {Concat(cs) : cs \in CharStrings(n)}

InitHex ==
  /\ hexN \in 0..MaxN
  /\ hexS \in HexInputs(2 * MaxN)
  /\ hexRes = None
  /\ hexPc = "call"
  /\ mainPc = "exited"
  /\ alive = FALSE
  /\ app = None
  /\ verifying_key = None
  /\ taskPc = "none"
  /\ reqs = [i \in Slots |-> NoReq]
  /\ served = 0
  /\ log = {}

ParseHexCall ==
  /\ hexPc = "call"
  /\ hexRes' = parse_hex(hexN, hexS)
  /\ hexPc' = "returned"
  /\ UNCHANGED <<hexN, hexS, mainVars, reqVars>>

NextHex == ParseHexCall

SpecHex == InitHex /\ [][NextHex]_vars

(***************************************************************************)
(* Properties.                                                             *)
(***************************************************************************)
\* The log holds a passing verification of request r's signature over its
\* timestamp and body, under the key r was handled with.
VerifiedInLog(r) ==
  \E e \in log : /\ e.pass
                 /\ e.signature = r.signature
                 /\ e.timestamp = r.timestamp
                 /\ e.body = r.body
                 /\ e.key = r.key

\* The request is the one its signer signed: the held key is the signer's,
\* the signed message is timestamp ++ body, and the signature text still
\* decodes to the signature issued.
AsIssued(r) ==
  /\ r.origin.signer \in KeyPairs
  /\ r.key = PublicKey(r.origin.signer)
  /\ r.origin.signed = r.timestamp \o r.body
  /\ parse_hex(SIGNATURE_LENGTH, r.signature) =
       Some(Sign(r.origin.signer, r.origin.signed))

\* C1: verify_discord_message returns Ok exactly when the signature text
\* decodes to 64 bytes that are a valid signature, under the held key, of
\* timestamp ++ body; that is the case exactly for a request as its signer
\* issued it, and any change that yields another signature or another signed
\* message, or another key pair's public key, fails and is answered 401.
C1_VerifyContract ==
  \A i \in Slots :
    LET r == reqs[i]
        sig == parse_hex(SIGNATURE_LENGTH, r.signature)
        valid == /\ sig.some
                 /\ \E kp \in KeyPairs :
                      /\ r.key = PublicKey(kp)
                      /\ sig.val = Sign(kp, r.timestamp \o r.body)
    IN  r.checked =>
          /\ r.verified <=> valid
          /\ r.verified <=> AsIssued(r)
          /\ r.verified <=> VerifiedInLog(r)
          /\ ~r.verified => r.pc = "done" /\ r.status = 401

\* A request signed by the holder of the served key over its own timestamp
\* and body, with the last character of the signature text changed, was
\* answered 401.
C1_Witness ==
  \E i \in Slots :
    LET r == reqs[i]
    IN  /\ r.checked /\ r.pc = "done" /\ r.status = 401
        /\ r.origin.tamper = "flip"
        /\ r.key = PublicKey(r.origin.signer)
        /\ r.origin.signed = r.timestamp \o r.body

\* C2: verification comes before decoding and gates it: a request whose
\* signature did not verify is answered 401 and its body is never decoded or
\* dispatched; a body is decoded, and a 200 answered, only after a passing
\* verification of that request's signature over its timestamp and body.
C2_VerifyGatesDecode ==
  \A i \in Slots :
    LET r == reqs[i]
    IN  /\ (r.decoded \/ r.interaction.some \/ r.pc \in {"decode", "dispatch"}
              \/ r.status = 200 \/ r.reply # <<>>)
             => r.checked /\ r.verified /\ VerifiedInLog(r)
        /\ (r.checked /\ ~VerifiedInLog(r))
             => /\ r.pc = "done" /\ r.status = 401
                /\ ~r.decoded /\ ~r.interaction.some /\ r.reply = <<>>

\* A request whose body spells a Ping was answered 401 without being decoded.
C2_Witness ==
  \E i \in Slots :
    LET r == reqs[i]
    IN  /\ r.pc = "done" /\ r.status = 401 /\ r.checked /\ ~r.decoded
        /\ FromSlice(r.body).some

\* The JSON value j, if any, is an object with a `type` member of value n.
HasType(j, n) ==
  /\ j.some /\ j.val.k = "map"
  /\ \E e \in 1..Len(j.val.entries) : j.val.entries[e] = <<TypeKey, U64(n)>>

\* The JSON value j is an object with a `data` member that is an object with
\* a `name` member that is a string.
HasNameField(j) ==
  /\ j.some /\ j.val.k = "map"
  /\ \E e \in 1..Len(j.val.entries) :
       LET d == j.val.entries[e]
       IN  /\ d[1] = DataKey /\ d[2].k = "map"
           /\ \E f \in 1..Len(d[2].entries) :
                d[2].entries[f][1] = NameKey /\ d[2].entries[f][2].k = "str"

\* C3: a verified body decodes to Ping only if its `type` is 1, and to
\* ApplicationCommand only if its `type` is 2 and the name field is present
\* and a string; any other body fails to decode and is answered 400; a
\* decoded variant's tag is the variant's constant. The program decodes a
\* `data` that is an array of one string, with no name field, as a command.
C3_DiscriminantIntegrity ==
  \A i \in Slots :
    LET r == reqs[i]
        j == r.origin.json
        x == r.interaction.val
    IN  r.decoded =>
          /\ r.interaction.some =>
               /\ x._type.value = x._type.T
               /\ x.variant = "Ping" => x._type.T = 1 /\ HasType(j, 1)
               /\ x.variant = "ApplicationCommand" =>
                    x._type.T = 2 /\ HasType(j, 2) /\ HasNameField(j)
          /\ ~r.interaction.some => r.pc = "done" /\ r.status = 400
          /\ ~(HasType(j, 1) \/ (HasType(j, 2) /\ HasNameField(j)))
               => ~r.interaction.some

\* The reply is the JSON text of an object with the one member `type`: 1.
IsPongReply(reply) == ParseJson(reply) = Some(Obj1(TypeKey, U64(1)))

\* The JSON value j is an object whose `type` members, at least one, all have
\* the value 1, as an integer or with a zero fraction.
TypeEqualsOne(j) ==
  /\ j.some /\ j.val.k = "map"
  /\ \E e \in 1..Len(j.val.entries) : j.val.entries[e][1] = TypeKey
  /\ \A e \in 1..Len(j.val.entries) :
       j.val.entries[e][1] = TypeKey =>
         \/ j.val.entries[e][2] = U64(1)
         \/ j.val.entries[e][2] = F64(FALSE, 1, <<48>>)

\* The JSON value j is an object with exactly one `type` member, the integer 1.
OneTypeMemberOne(j) ==
  /\ j.some /\ j.val.k = "map"
  /\ Len(SelectSeq(j.val.entries, LAMBDA e : e[1] = TypeKey)) = 1
  /\ HasType(j, 1)

\* C4 as stated: every verified request whose body has `type` equal to 1 is
\* answered 200 with a Pong of wire type 1 and nothing else.
C4_PingAlwaysPong ==
  \A i \in Slots :
    LET r == reqs[i]
    IN  (r.verified /\ r.pc = "done" /\ TypeEqualsOne(r.origin.json))
          => r.status = 200 /\ IsPongReply(r.reply)

\* C4, amended: every verified request whose body is a JSON object with
\* exactly one `type` member, the integer 1, is answered 200 with a Pong of
\* wire type 1 and nothing else, whatever else the body holds; and a Ping is
\* never answered otherwise.
C4_OneTypePingPong ==
  \A i \in Slots :
    LET r == reqs[i]
    IN  /\ (r.verified /\ r.pc = "done" /\ OneTypeMemberOne(r.origin.json))
             => r.status = 200 /\ IsPongReply(r.reply)
        /\ (r.pc = "done" /\ r.interaction.some
              /\ r.interaction.val.variant = "Ping")
             => r.status = 200 /\ IsPongReply(r.reply)

\* A verified body with `type` 1 and a `data` object naming the command city
\* was answered with the Pong.
C4_Witness ==
  \E i \in Slots :
    LET r == reqs[i]
    IN  /\ r.pc = "done" /\ r.status = 200 /\ IsPongReply(r.reply)
        /\ r.origin.json =
             Some(Obj2(TypeKey, U64(1), DataKey, Obj1(NameKey, Str(CityName))))

\* The word list of a registered command.
WordList(name) ==
  CASE name = CityName -> IncludeStrLines("city.txt")
    [] name = UsaCityName -> IncludeStrLines("usacity.txt")
    [] name = StateName -> IncludeStrLines("state.txt")

\* The reply is the JSON text of {"type":4,"data":{"content":word}}.
IsMessageReply(reply, word) ==
  ParseJson(reply) =
    Some(Obj2(TypeKey, U64(4), DataKey, Obj1(ContentKey, Str(word))))

\* C5: a verified ApplicationCommand named city, usacity or state is
\* answered 200 with a message of wire type 4 whose content is drawn from that
\* command's word list; any other name, matched by exact equality, is
\* answered 400 with no payload. The name is the body's data.name.
C5_CommandDispatch ==
  \A i \in Slots :
    LET r == reqs[i]
        x == r.interaction.val
    IN  (r.pc = "done" /\ r.interaction.some /\ x.variant = "ApplicationCommand")
          => /\ r.verified
             /\ IF x.data.name \in {CityName, UsaCityName, StateName}
                THEN /\ r.status = 200
                     /\ \E word \in WordList(x.data.name) :
                          IsMessageReply(r.reply, word)
                ELSE r.status = 400 /\ r.reply = <<>>
             /\ \A n \in {CityName, UsaCityName, StateName, CityCapital, XKey} :
                  r.origin.json =
                    Some(Obj2(TypeKey, U64(2), DataKey, Obj1(NameKey, Str(n))))
                  => x.data.name = n

\* The command usacity was answered with an entry of usacity.txt.
C5_Witness ==
  \E i \in Slots :
    LET r == reqs[i]
    IN  /\ r.pc = "done" /\ r.status = 200
        /\ r.origin.json =
             Some(Obj2(TypeKey, U64(2), DataKey, Obj1(NameKey, Str(UsaCityName))))
        /\ \E word \in IncludeStrLines("usacity.txt") : IsMessageReply(r.reply, word)

\* Every character of v is a hexadecimal digit; a decimal digit.
AllHexDigits(v) ==
  \A j \in 1..Len(v) :
    \/ v[j] >= 48 /\ v[j] <= 57
    \/ v[j] >= 97 /\ v[j] <= 102
    \/ v[j] >= 65 /\ v[j] <= 70
AllDecimalDigits(v) == \A j \in 1..Len(v) : v[j] >= 48 /\ v[j] <= 57

\* A signature header as the interface asks for it: present, text, and 128
\* hexadecimal characters.
WellFormedSignature(h) ==
  h.some /\ ToStr(h.val).some /\ Len(h.val) = 2 * SIGNATURE_LENGTH
    /\ AllHexDigits(h.val)

\* A timestamp header as the interface asks for it: present, text, and a
\* decimal string.
WellFormedTimestamp(h) ==
  h.some /\ ToStr(h.val).some /\ Len(h.val) > 0 /\ AllDecimalDigits(h.val)

\* C6: a request with a missing or malformed authentication header is
\* answered 400, and 401 is answered only when the signature header is
\* well-formed hexadecimal. The program answers 401 for a signature header that
\* is not 128 hexadecimal characters, and verifies under a timestamp that is
\* no decimal string.
C6_MalformedHeaderIs400 ==
  \A i \in Slots :
    LET r == reqs[i]
    IN  r.pc = "done" =>
          /\ ~(WellFormedSignature(r.headers.sig) /\ WellFormedTimestamp(r.headers.ts))
               => r.status = 400
          /\ r.status = 401 => WellFormedSignature(r.headers.sig)

\* The value of a hexadecimal digit character.
HexValue(b) ==
  IF b >= 48 /\ b <= 57 THEN b - 48
  ELSE IF b >= 97 /\ b <= 102 THEN b - 87
  ELSE b - 55

\* C7: parse_hex::<N>(s) returns a value only when s is exactly 2N
\* hexadecimal digit characters, and then byte i is the value of characters
\* 2i and 2i+1. The program returns a value for a pair that is a '+' and one
\* digit.
C7_ParseHexOnlyHexDigits ==
  (hexPc = "returned" /\ hexRes.some) =>
    /\ Len(hexS) = 2 * hexN
    /\ AllHexDigits(hexS)
    /\ \A i \in 1..hexN :
         hexRes.val[i] = 16 * HexValue(hexS[2 * i - 1]) + HexValue(hexS[2 * i])

\* The key is in place: a valid key, the one every request that has arrived
\* and every verification made was handled with.
C8_KeyInPlace ==
  /\ (mainPc \in {"bind", "serving"} \/ served > 0) =>
       /\ verifying_key.some
       /\ \E kp \in KeyPairs : verifying_key.val = PublicKey(kp)
  /\ served > 0 => mainPc = "serving" /\ alive
  /\ mainPc = "exited" =>
       ~alive /\ served = 0 /\ \A i \in Slots : reqs[i].pc = "idle"
  /\ \A i \in Slots : reqs[i].pc # "idle" => reqs[i].key = verifying_key.val
  /\ \A e \in log : e.key = verifying_key.val

\* main reaches the bind with the key its application's verify_key decodes
\* to; while serving, and after exiting, nothing of it changes.
C8_KeySetOnce ==
  /\ (mainPc # "bind" /\ mainPc' = "bind") =>
       /\ app.some
       /\ parse_hex(PUBLIC_KEY_LENGTH, app.val.verify_key) = verifying_key'
  /\ mainPc' = "serving" => mainPc \in {"bind", "serving"}
  /\ mainPc \in {"bind", "serving"} => verifying_key' = verifying_key /\ app' = app
  /\ mainPc = "exited" => mainPc' = "exited" /\ ~alive'

\* C8: the listener is bound, and requests are accepted, only after the
\* verifying key has been decoded to 32 bytes and accepted as a key; a
\* startup step that fails ends the process, which never serves; once
\* serving, the key never changes, so every request is verified against it.
C8_StartupBeforeServe == []C8_KeyInPlace /\ [][C8_KeySetOnce]_vars

\* Two requests at different statements of handle, one verified and one
\* about to be, both with the key main built.
C8_Witness ==
  /\ mainPc = "serving"
  /\ \E i, j \in Slots :
       /\ reqs[i].verified /\ reqs[i].pc = "dispatch"
       /\ reqs[j].pc = "verify"
       /\ reqs[i].key = verifying_key.val /\ reqs[j].key = verifying_key.val

\* The process ends only when main returns; with the task panicked it runs
\* and serves.
C9_ProcessOutlivesTask ==
  /\ ~alive => mainPc = "exited"
  /\ (taskPc = "panicked" /\ mainPc # "exited") => alive
  /\ \A i \in Slots :
       reqs[i].task \in {"panicked", "panicked_in_flight"} =>
         taskPc = "panicked" /\ alive /\ mainPc = "serving"

\* The step in which the task panics changes nothing of main, of the key or
\* of any request (but the mark in its history).
C9_PanicTouchesNothing ==
  (taskPc = "running" /\ taskPc' = "panicked") =>
    /\ alive' /\ mainPc' = mainPc
    /\ verifying_key' = verifying_key
    /\ served' = served /\ log' = log
    /\ \A i \in Slots : [reqs'[i] EXCEPT !.task = reqs[i].task] = reqs[i]

\* C9: the failure of the spawned task does not end the process and does
\* not touch request handling: the process ends only when main returns, and
\* requests in flight when the task panics, and requests arriving later, go
\* on being handled.
C9_TaskFailureIsolated == []C9_ProcessOutlivesTask /\ [][C9_PanicTouchesNothing]_vars

\* The task panicked while one request was in flight, and that request and
\* one that arrived after the panic were both answered 200.
C9_Witness ==
  /\ taskPc = "panicked" /\ alive
  /\ \E i, j \in Slots :
       /\ reqs[i].task = "panicked_in_flight"
       /\ reqs[i].pc = "done" /\ reqs[i].status = 200
       /\ reqs[j].task = "panicked"
       /\ reqs[j].pc = "done" /\ reqs[j].status = 200

\* C10: the outcome of verification is a function of the held key, the
\* signature and timestamp ++ body: verifications of the same signature over
\* the same concatenation agree wherever the boundary lies and whenever they
\* are made, and a request accepted before is accepted again.
C10_OutcomeByConcatenation ==
  /\ \A e1, e2 \in log :
       (/\ e1.key = e2.key /\ e1.signature = e2.signature
        /\ e1.timestamp \o e1.body = e2.timestamp \o e2.body)
         => e1.pass = e2.pass
  /\ \A i \in Slots :
       reqs[i].checked =>
         /\ reqs[i].replay => reqs[i].verified
         /\ \A e \in log :
              (/\ e.key = reqs[i].key /\ e.signature = reqs[i].signature
               /\ e.timestamp \o e.body = reqs[i].timestamp \o reqs[i].body)
                => e.pass = reqs[i].verified

\* One signature passed verification with two different timestamps, the
\* boundary between timestamp and body at two places.
C10_Witness ==
  \E i, j \in Slots :
    /\ reqs[i].verified /\ reqs[j].verified
    /\ reqs[i].signature = reqs[j].signature
    /\ reqs[i].timestamp # reqs[j].timestamp
    /\ reqs[i].timestamp \o reqs[i].body = reqs[j].timestamp \o reqs[j].body

====
